---- MODULE Spec2Model ----
(***************************************************************************)
(* A model of the activity test of the applications API (runTest and its  *)
(* subtests, newExperimentName) and of the named-item delete commands.     *)
(*                                                                         *)
(* runTest runs three concurrent units: the test function itself (pc),     *)
(* the delivery loop of the activity subscription (pp) and the             *)
(* "Handle Activity" subtest (hp).  "Handle Activity" calls t.Parallel(),  *)
(* so the testing package pauses it until the function that registered it  *)
(* has returned.                                                           *)
(***************************************************************************)
EXTENDS Integers, Sequences, FiniteSets, TLC

\* Activity items already pending on the feed when the test subscribes (the
\* feed query filters by type only, not by application).
MaxForeign == 2
\* Trial assignments the server hands out before it must answer otherwise.
MaxTrials == 2
\* Feed polls of one subscription.
MaxPolls == 3
\* Names given to a delete command.
MaxNames == 3

VARIABLES
    pc,         \* runTest: the next subtest or statement
    ok,         \* runTest: the result of the last assigned t.Run
    appLoc,     \* appMeta.Location() is not empty
    run,        \* the sync.WaitGroup counter
    adds,       \* history: run.Add(1) calls
    runRequested, \* history: CreateActivity{Run} succeeded
    cancelled,  \* subCtx is cancelled
    crashed,    \* the test binary died of a panic
    feed,       \* server: the pending activity items, in feed order
    pp,         \* delivery loop: none, sleep, send, exited
    page,       \* delivery loop: fetched items not pushed yet
    polls,      \* delivery loop: number of fetches
    chClosed,   \* the activity channel is closed
    pushed,     \* history: items pushed onto the channel, in order
    fetched,    \* history: the poll results, concatenated
    hp,         \* Handle Activity: its position
    ai,         \* Handle Activity: the item being handled
    received,   \* history: per URL, times received from the channel
    handled,    \* history: per URL, times the Scan or Run subtest returned
    acks,       \* history: per URL, DeleteActivity invocations
    ackErr,     \* history: a DeleteActivity call failed
    subFailed,  \* the current Scan or Run subtest is marked failed
    loop,       \* trial loop of the current Run: idle, running, stopped, failed
    nextCalls,  \* NextTrial calls of the current trial loop
    reports,    \* ReportTrial calls of the current trial loop
    trialErr,   \* err of the last NextTrial or ReportTrial call of the loop
    lKind,      \* delete command: experiments or applications
    lNames,     \* delete command: args, the names given
    lIgnore,    \* delete command: the --ignore-not-found flag
    lServer,    \* delete command: what the server holds under each name
    lIdx,       \* ForEachNamedItem: index of the next name
    lVisited,   \* history: names the visitor was called with, in order
    lDeleted,   \* history: names whose delete request succeeded, in order
    lErr,       \* the error the command returned ("none" while running)
    nPc,        \* newExperimentName: the number of the next call (0: none)
    nTime,      \* the two millisecond timestamps, as <<high, low>> 24-bit halves
    nRand,      \* the two results of rand.Read(name[6:]): 10 bytes each
    nNames,     \* the two names returned (sequences of character codes)
    rPc,        \* normalizeResource: 0 no call, 1 called, 2 returned
    rIn,        \* the resource given to normalizeResource
    rOut,       \* the resource it returned
    rOk         \* the bool it returned

mainVars == <<pc, ok, appLoc, run, adds, runRequested, cancelled, crashed, feed>>
subVars == <<pp, page, polls, chClosed, pushed, fetched>>
handleVars == <<hp, ai, received, handled, acks, ackErr, subFailed, loop,
                nextCalls, reports, trialErr>>

listerVars == <<lKind, lNames, lIgnore, lServer, lIdx, lVisited, lDeleted, lErr>>
nameVars == <<nPc, nTime, nRand, nNames>>
resourceVars == <<rPc, rIn, rOut, rOk>>
vars == <<mainVars, subVars, handleVars, listerVars, nameVars, resourceVars>>

TagScan == "Scan"
TagRun == "Run"

URLs == 1 .. (MaxForeign + 2)
ScanURL == MaxForeign + 1
RunURL == MaxForeign + 2

ActivityItem(u, t) == [URL |-> u, tag |-> t]
NoItem == [URL |-> 0, tag |-> "none"]

\* The errors of NextTrial and ReportTrial: nil, an *api.Error with a Type,
\* or any other error.
ErrExperimentStopped == "experiment-stopped"
NilErr == [kind |-> "nil", type |-> ""]
TrialErrors ==
    { NilErr,
      [kind |-> "api", type |-> ErrExperimentStopped],
      [kind |-> "api", type |-> "unexpected"],
      [kind |-> "plain", type |-> ""] }

\* The feeds the server can hold before the test starts: item k has URL k.
ForeignFeeds ==
    UNION { { [k \in 1 .. n |-> ActivityItem(k, f[k])] :
                f \in [1 .. n -> {TagScan, TagRun}] } : n \in 0 .. MaxForeign }

SeqToSet(s) == { s[k] : k \in 1 .. Len(s) }

RECURSIVE WithoutURL(_, _)
WithoutURL(s, u) ==
    IF s = <<>> THEN <<>>
    ELSE IF Head(s).URL = u THEN WithoutURL(Tail(s), u)
    ELSE <<Head(s)>> \o WithoutURL(Tail(s), u)

Bump(f, u) == [f EXCEPT ![u] = @ + 1]

(***************************************************************************)
(* runTest: the test function                                              *)
(***************************************************************************)

\* "Subscribe": a subscription starts its delivery loop; without one the test
\* closes the channel itself.
Subscribe ==
    /\ ~crashed
    /\ pc = "Subscribe"
    /\ \E err \in BOOLEAN :
         IF err THEN chClosed' = TRUE /\ pp' = pp
                ELSE pp' = "sleep" /\ chClosed' = chClosed
    /\ pc' = "CreateApplication"
    /\ UNCHANGED <<ok, appLoc, run, adds, runRequested, cancelled, crashed, feed,
                   page, polls, pushed, fetched, handleVars, listerVars, nameVars,
                   resourceVars>>

\* "Create Application": require.NoError is fatal, the asserts only mark the
\* subtest failed; t.Run reports whether the subtest did not fail.
CreateApplication ==
    /\ ~crashed
    /\ pc = "CreateApplication"
    /\ \E r \in {"error", "created", "createdAssertFailed", "createdNoLocation"} :
         /\ appLoc' = (r \in {"created", "createdAssertFailed"})
         /\ ok' = (r = "created")
    /\ pc' = "CreateScenario"
    /\ UNCHANGED <<run, adds, runRequested, cancelled, crashed, feed, subVars,
                   handleVars, listerVars, nameVars, resourceVars>>

\* "Create Scenario": skipped when ok is false; a skipped subtest has not
\* failed, so t.Run returns true for it.
CreateScenario ==
    /\ ~crashed
    /\ pc = "CreateScenario"
    /\ IF ~ok THEN ok' = TRUE
       ELSE \E failed \in BOOLEAN : ok' = ~failed
    /\ pc' = "HandleActivity"
    /\ UNCHANGED <<appLoc, run, adds, runRequested, cancelled, crashed, feed,
                   subVars, handleVars, listerVars, nameVars, resourceVars>>

\* t.Run("Handle Activity"): the subtest calls t.Parallel() first, which lets
\* t.Run return and parks the subtest until its parent's function returns.
HandleActivity ==
    /\ ~crashed
    /\ pc = "HandleActivity"
    /\ hp' = "parallel"
    /\ pc' = "RequestActivity"
    /\ UNCHANGED <<ok, appLoc, run, adds, runRequested, cancelled, crashed, feed,
                   subVars, ai, received, handled, acks, ackErr, subFailed, loop,
                   nextCalls, reports, trialErr, listerVars, nameVars,
                   resourceVars>>

\* "Request Activity" up to ListApplications.
RequestActivity ==
    /\ ~crashed
    /\ pc = "RequestActivity"
    /\ IF ~ok THEN pc' = "Wait"
       ELSE \E err \in BOOLEAN : pc' = IF err THEN "Wait" ELSE "RequestScan"
    /\ UNCHANGED <<ok, appLoc, run, adds, runRequested, cancelled, crashed, feed,
                   subVars, handleVars, listerVars, nameVars, resourceVars>>

\* CreateActivity{Scan}.
RequestScan ==
    /\ ~crashed
    /\ pc = "RequestScan"
    /\ \E err \in BOOLEAN :
         IF err THEN pc' = "Wait" /\ feed' = feed
                ELSE /\ pc' = "RequestRun"
                     /\ feed' = Append(feed, ActivityItem(ScanURL, TagScan))
    /\ UNCHANGED <<ok, appLoc, run, adds, runRequested, cancelled, crashed,
                   subVars, handleVars, listerVars, nameVars, resourceVars>>

\* CreateActivity{Run}.
RequestRun ==
    /\ ~crashed
    /\ pc = "RequestRun"
    /\ \E err \in BOOLEAN :
         IF err THEN pc' = "Wait" /\ feed' = feed /\ runRequested' = runRequested
                ELSE /\ pc' = "Add"
                     /\ feed' = Append(feed, ActivityItem(RunURL, TagRun))
                     /\ runRequested' = TRUE
    /\ UNCHANGED <<ok, appLoc, run, adds, cancelled, crashed,
                   subVars, handleVars, listerVars, nameVars, resourceVars>>

\* run.Add(1), the last statement of "Request Activity".
Add ==
    /\ ~crashed
    /\ pc = "Add"
    /\ run' = run + 1
    /\ adds' = adds + 1
    /\ pc' = "Wait"
    /\ UNCHANGED <<ok, appLoc, runRequested, cancelled, crashed, feed,
                   subVars, handleVars, listerVars, nameVars, resourceVars>>

\* run.Wait() returns when the counter is zero.
WaitReturnsAtOnce ==
    /\ ~crashed
    /\ pc = "Wait"
    /\ pc' = "cancelSub"
    /\ UNCHANGED <<ok, appLoc, run, adds, runRequested, cancelled, crashed, feed,
                   subVars, handleVars, listerVars, nameVars, resourceVars>>

Wait ==
    /\ ~crashed
    /\ pc = "Wait"
    /\ run = 0
    /\ pc' = "cancelSub"
    /\ UNCHANGED <<ok, appLoc, run, adds, runRequested, cancelled, crashed, feed,
                   subVars, handleVars, listerVars, nameVars, resourceVars>>

CancelSub ==
    /\ ~crashed
    /\ pc = "cancelSub"
    /\ cancelled' = TRUE
    /\ pc' = "DeleteApplication"
    /\ UNCHANGED <<ok, appLoc, run, adds, runRequested, crashed, feed,
                   subVars, handleVars, listerVars, nameVars, resourceVars>>

\* "Delete Application" (skipped without a location); runTest returns.
DeleteApplication ==
    /\ ~crashed
    /\ pc = "DeleteApplication"
    /\ pc' = "returned"
    /\ UNCHANGED <<ok, appLoc, run, adds, runRequested, cancelled, crashed, feed,
                   subVars, handleVars, listerVars, nameVars, resourceVars>>

(***************************************************************************)
(* The subscription's delivery loop (Subscribe(ctx, activity)).  Its code  *)
(* is outside the source at hand; it follows the specification: sleep,     *)
(* fetch the feed, push each item in feed order with a blocking send that  *)
(* stays cancellable, and on cancellation exit and close the channel.      *)
(***************************************************************************)

\* One poll: the pending items of the feed, in feed order.
PollFetch ==
    /\ ~crashed
    /\ pp = "sleep"
    /\ polls < MaxPolls
    /\ polls' = polls + 1
    /\ page' = feed
    /\ fetched' = fetched \o feed
    /\ pp' = IF feed = <<>> THEN "sleep" ELSE "send"
    /\ UNCHANGED <<mainVars, chClosed, pushed, handleVars, listerVars, nameVars,
                   resourceVars>>

\* The send on the unbuffered channel meets the receive of the range loop.
DeliverLastFirst ==
    /\ ~crashed
    /\ pp = "send"
    /\ hp = "recv"
    /\ ~chClosed
    /\ ai' = page[Len(page)]
    /\ pushed' = Append(pushed, page[Len(page)])
    /\ received' = Bump(received, page[Len(page)].URL)
    /\ page' = SubSeq(page, 1, Len(page) - 1)
    /\ pp' = IF Len(page) = 1 THEN "sleep" ELSE "send"
    /\ hp' = "getScenario"
    /\ UNCHANGED <<mainVars, polls, chClosed, fetched, handled, acks, ackErr,
                   subFailed, loop, nextCalls, reports, trialErr,
                   listerVars, nameVars, resourceVars>>

Deliver ==
    /\ ~crashed
    /\ pp = "send"
    /\ hp = "recv"
    /\ ~chClosed
    /\ ai' = Head(page)
    /\ pushed' = Append(pushed, Head(page))
    /\ received' = Bump(received, Head(page).URL)
    /\ page' = Tail(page)
    /\ pp' = IF Tail(page) = <<>> THEN "sleep" ELSE "send"
    /\ hp' = "getScenario"
    /\ UNCHANGED <<mainVars, polls, chClosed, fetched, handled, acks, ackErr,
                   subFailed, loop, nextCalls, reports, trialErr,
                   listerVars, nameVars, resourceVars>>

\* Cancellation is observed while sleeping and while blocked in the send.
PollerCancel ==
    /\ ~crashed
    /\ pp \in {"sleep", "send"}
    /\ cancelled
    /\ pp' = "exited"
    /\ chClosed' = TRUE
    /\ UNCHANGED <<mainVars, page, polls, pushed, fetched, handleVars,
                   listerVars, nameVars, resourceVars>>

(***************************************************************************)
(* "Handle Activity"                                                       *)
(***************************************************************************)

\* The parent's function has returned: the parallel subtest resumes, and
\* skips itself when ok is false.
HandleResume ==
    /\ ~crashed
    /\ hp = "parallel"
    /\ pc = "returned"
    /\ hp' = IF ok THEN "recv" ELSE "skipped"
    /\ UNCHANGED <<mainVars, subVars, ai, received, handled, acks, ackErr,
                   subFailed, loop, nextCalls, reports, trialErr,
                   listerVars, nameVars, resourceVars>>

\* The range loop ends on a closed channel.
RangeEnd ==
    /\ ~crashed
    /\ hp = "recv"
    /\ chClosed
    /\ hp' = "exited"
    /\ UNCHANGED <<mainVars, subVars, ai, received, handled, acks, ackErr,
                   subFailed, loop, nextCalls, reports, trialErr,
                   listerVars, nameVars, resourceVars>>

\* GetScenario and the required links: a failure is fatal to Handle Activity.
GetScenario ==
    /\ ~crashed
    /\ hp = "getScenario"
    /\ \E err \in BOOLEAN : hp' = IF err THEN "failed" ELSE "getApplication"
    /\ UNCHANGED <<mainVars, subVars, ai, received, handled, acks, ackErr,
                   subFailed, loop, nextCalls, reports, trialErr,
                   listerVars, nameVars, resourceVars>>

\* GetApplication, then the switch on the item's tag starts a subtest.
GetApplication ==
    /\ ~crashed
    /\ hp = "getApplication"
    /\ \E err \in BOOLEAN :
         hp' = IF err THEN "failed"
               ELSE IF ai.tag = TagScan THEN "scan" ELSE "getTemplate"
    /\ subFailed' = FALSE
    /\ loop' = "idle"
    /\ nextCalls' = 0
    /\ reports' = 0
    /\ trialErr' = NilErr
    /\ UNCHANGED <<mainVars, subVars, ai, received, handled, acks, ackErr,
                   listerVars, nameVars, resourceVars>>

\* "Scan": UpdateTemplate; the subtest returns passed or failed.
Scan ==
    /\ ~crashed
    /\ hp = "scan"
    /\ \E err \in BOOLEAN : subFailed' = err
    /\ handled' = Bump(handled, ai.URL)
    /\ hp' = "ack"
    /\ UNCHANGED <<mainVars, subVars, ai, received, acks, ackErr, loop,
                   nextCalls, reports, trialErr, listerVars, nameVars,
                   resourceVars>>

\* "Run": GetTemplate; a failure is fatal to the Run subtest only.
GetTemplate ==
    /\ ~crashed
    /\ hp = "getTemplate"
    /\ \E err \in BOOLEAN :
         /\ subFailed' = err
         /\ hp' = IF err THEN "runDone" ELSE "createExperiment"
    /\ UNCHANGED <<mainVars, subVars, ai, received, handled, acks, ackErr, loop,
                   nextCalls, reports, trialErr, listerVars, nameVars,
                   resourceVars>>

\* "Run": NewAPIWithEndpoint, CreateExperimentByName and the asserts on it.
CreateExperiment ==
    /\ ~crashed
    /\ hp = "createExperiment"
    /\ \E r \in {"error", "created", "createdAssertFailed"} :
         /\ subFailed' = (r # "created")
         /\ hp' = IF r = "error" THEN "runDone" ELSE "createTrial"
    /\ UNCHANGED <<mainVars, subVars, ai, received, handled, acks, ackErr, loop,
                   nextCalls, reports, trialErr, listerVars, nameVars,
                   resourceVars>>

\* "Run": the baseline trial; the trial loop starts after it.
CreateTrial ==
    /\ ~crashed
    /\ hp = "createTrial"
    /\ \E err \in BOOLEAN :
         /\ subFailed' = (subFailed \/ err)
         /\ hp' = IF err THEN "runDone" ELSE "nextTrial"
         /\ loop' = IF err THEN loop ELSE "running"
    /\ UNCHANGED <<mainVars, subVars, ai, received, handled, acks, ackErr,
                   nextCalls, reports, trialErr, listerVars, nameVars,
                   resourceVars>>

\* errors.As(err, &aerr) && aerr.Type == experiments.ErrExperimentStopped
IsStoppedSkipped(err) == FALSE
IsStoppedAnyApiError(err) == err.kind = "api"
IsExperimentStopped(err) == err.kind = "api" /\ err.type = ErrExperimentStopped

\* One pass of the loop up to ReportTrial: the stopped signal breaks, any
\* other error is fatal to the Run subtest, an empty location only marks it.
NextTrial ==
    /\ ~crashed
    /\ hp = "nextTrial"
    /\ \E err \in TrialErrors, location \in BOOLEAN :
         /\ err = NilErr => nextCalls < MaxTrials
         /\ err # NilErr => ~location
         /\ trialErr' = err
         /\ nextCalls' = nextCalls + 1
         /\ IF IsExperimentStopped(err)
              THEN loop' = "stopped" /\ hp' = "runDone" /\ subFailed' = subFailed
            ELSE IF err # NilErr
              THEN loop' = "failed" /\ hp' = "runDone" /\ subFailed' = TRUE
            ELSE /\ loop' = loop
                 /\ hp' = "reportTrial"
                 /\ subFailed' = (subFailed \/ ~location)
    /\ UNCHANGED <<mainVars, subVars, ai, received, handled, acks, ackErr,
                   reports, listerVars, nameVars, resourceVars>>

\* ReportTrial: every error is fatal to the Run subtest.
ReportTrial ==
    /\ ~crashed
    /\ hp = "reportTrial"
    /\ \E err \in TrialErrors :
         /\ trialErr' = err
         /\ reports' = reports + 1
         /\ IF err # NilErr
              THEN loop' = "failed" /\ hp' = "runDone" /\ subFailed' = TRUE
              ELSE loop' = loop /\ hp' = "nextTrial" /\ subFailed' = subFailed
    /\ UNCHANGED <<mainVars, subVars, ai, received, handled, acks, ackErr,
                   nextCalls, listerVars, nameVars, resourceVars>>

\* The deferred run.Done() of the Run subtest: a WaitGroup whose counter
\* goes negative panics, and a panic in a test ends the test binary.
RunDone ==
    /\ ~crashed
    /\ hp = "runDone"
    /\ run' = run - 1
    /\ IF run - 1 < 0
         THEN crashed' = TRUE /\ hp' = hp /\ handled' = handled
         ELSE crashed' = crashed /\ hp' = "ack" /\ handled' = Bump(handled, ai.URL)
    /\ UNCHANGED <<pc, ok, appLoc, adds, runRequested, cancelled, feed, subVars,
                   ai, received, acks, ackErr, subFailed, loop, nextCalls,
                   reports, trialErr, listerVars, nameVars, resourceVars>>

\* DeleteActivity(ai.URL) removes the item from the feed; its failure is
\* fatal to Handle Activity (require.NoError).
AckContinuesOnError ==
    /\ ~crashed
    /\ hp = "ack"
    /\ \E err \in BOOLEAN :
         /\ ackErr' = (ackErr \/ err)
         /\ feed' = IF err THEN feed ELSE WithoutURL(feed, ai.URL)
    /\ hp' = "recv"
    /\ acks' = Bump(acks, ai.URL)
    /\ UNCHANGED <<pc, ok, appLoc, run, adds, runRequested, cancelled, crashed,
                   subVars, ai, received, handled, subFailed, loop, nextCalls,
                   reports, trialErr, listerVars, nameVars, resourceVars>>

Ack ==
    /\ ~crashed
    /\ hp = "ack"
    /\ \E err \in BOOLEAN :
         /\ ackErr' = (ackErr \/ err)
         /\ feed' = IF err THEN feed ELSE WithoutURL(feed, ai.URL)
         /\ hp' = IF err THEN "failed" ELSE "recv"
    /\ acks' = Bump(acks, ai.URL)
    /\ UNCHANGED <<pc, ok, appLoc, run, adds, runRequested, cancelled, crashed,
                   subVars, ai, received, handled, subFailed, loop, nextCalls,
                   reports, trialErr, listerVars, nameVars, resourceVars>>

(***************************************************************************)
(* The test as a whole                                                     *)
(***************************************************************************)

ListerIdle ==
    /\ lKind = "none" /\ lNames = <<>> /\ lIgnore = FALSE /\ lServer = <<>>
    /\ lIdx = 0 /\ lVisited = <<>> /\ lDeleted = <<>> /\ lErr = "none"

NamesIdle ==
    /\ nPc = 0 /\ nTime = <<>> /\ nRand = <<>> /\ nNames = <<>>

\* applications.Resource, its Kubernetes part: the zero value.
NoResource ==
    [Namespace |-> "", Namespaces |-> <<>>, NamespaceSelector |-> "",
     Selector |-> ""]

ResourceIdle ==
    /\ rPc = 0 /\ rIn = NoResource /\ rOut = NoResource /\ rOk = FALSE

TestIdle ==
    /\ pc = "none" /\ ok = FALSE /\ appLoc = FALSE /\ run = 0 /\ adds = 0
    /\ runRequested = FALSE /\ cancelled = FALSE /\ crashed = FALSE
    /\ feed = <<>>
    /\ pp = "none" /\ page = <<>> /\ polls = 0 /\ chClosed = FALSE
    /\ pushed = <<>> /\ fetched = <<>>
    /\ hp = "init" /\ ai = NoItem
    /\ received = [u \in URLs |-> 0]
    /\ handled = [u \in URLs |-> 0]
    /\ acks = [u \in URLs |-> 0]
    /\ ackErr = FALSE /\ subFailed = FALSE /\ loop = "idle"
    /\ nextCalls = 0 /\ reports = 0 /\ trialErr = NilErr

Init ==
    /\ pc = "Subscribe" /\ ok = FALSE /\ appLoc = FALSE /\ run = 0 /\ adds = 0
    /\ runRequested = FALSE /\ cancelled = FALSE /\ crashed = FALSE
    /\ feed \in ForeignFeeds
    /\ pp = "none" /\ page = <<>> /\ polls = 0 /\ chClosed = FALSE
    /\ pushed = <<>> /\ fetched = <<>>
    /\ hp = "init" /\ ai = NoItem
    /\ received = [u \in URLs |-> 0]
    /\ handled = [u \in URLs |-> 0]
    /\ acks = [u \in URLs |-> 0]
    /\ ackErr = FALSE /\ subFailed = FALSE /\ loop = "idle"
    /\ nextCalls = 0 /\ reports = 0 /\ trialErr = NilErr
    /\ ListerIdle
    /\ NamesIdle
    /\ ResourceIdle

TestFunction ==
    \/ Subscribe \/ CreateApplication \/ CreateScenario \/ HandleActivity
    \/ RequestActivity \/ RequestScan \/ RequestRun \/ Add \/ Wait
    \/ CancelSub \/ DeleteApplication

DeliveryLoop == PollFetch \/ Deliver \/ PollerCancel

HandleActivityBody ==
    \/ HandleResume \/ RangeEnd \/ GetScenario \/ GetApplication \/ Scan
    \/ GetTemplate \/ CreateExperiment \/ CreateTrial \/ NextTrial
    \/ ReportTrial \/ RunDone \/ Ack

Next == TestFunction \/ DeliveryLoop \/ HandleActivityBody

Spec == Init /\ [][Next]_vars

\* Every unit that can take a step takes it: goroutines are scheduled and
\* every server call returns.
FairSpec ==
    /\ Spec
    /\ WF_vars(TestFunction)
    /\ WF_vars(PollFetch \/ Deliver)
    /\ WF_vars(PollerCancel)
    /\ WF_vars(HandleActivityBody)

(***************************************************************************)
(* Properties of the dispatch loop and of the trial loop                   *)
(***************************************************************************)

IsPrefix(s, t) == Len(s) <= Len(t) /\ SubSeq(t, 1, Len(s)) = s

\* Handle Activity is through with the item it received last: it is back at
\* the receive, its loop has ended after an acknowledgement, or the test
\* binary has died.  (The end of the loop on a failed fetch is left out.)
ThroughWithItem ==
    \/ hp \in {"recv", "exited"}
    \/ hp = "failed" /\ ackErr
    \/ crashed

\* C1: every item received (here: every item whose scenario and application
\* were fetched) has DeleteActivity invoked on its URL exactly once, after
\* its Scan or Run handling has completed, passed or failed.
C1_AcknowledgedExactlyOnce ==
    ThroughWithItem => \A u \in URLs : acks[u] = received[u]

StoppedErr == [kind |-> "api", type |-> ErrExperimentStopped]

NextTrialStep == hp = "nextTrial" /\ nextCalls' = nextCalls + 1
ReportTrialStep == hp = "reportTrial" /\ reports' = reports + 1
SameLoopCalls == nextCalls' = nextCalls /\ reports' = reports
NewLoop == hp = "getApplication"

\* C2: in the trial loop, a NextTrial that returns ExperimentStopped ends the
\* loop at once without marking the Run subtest failed, on any iteration; no
\* NextTrial or ReportTrial call of that loop follows, so every trial handed
\* out before was reported and a stop on the first call leaves zero reports.
C2_StoppedEndsLoop ==
    /\ [](loop = "stopped" =>
            /\ hp \notin {"nextTrial", "reportTrial"}
            /\ trialErr = StoppedErr
            /\ reports = nextCalls - 1)
    /\ [][ /\ (NextTrialStep /\ trialErr' = StoppedErr) =>
                (loop' = "stopped" /\ hp' = "runDone" /\ subFailed' = subFailed)
           /\ loop = "stopped" => (SameLoopCalls \/ NewLoop) ]_vars

C2_StoppedOnFirstCall ==
    loop = "stopped" /\ nextCalls = 1 /\ reports = 0 /\ ~subFailed

\* C3: any other error of NextTrial, and any error of ReportTrial, fails the
\* Run subtest and ends the loop: no NextTrial or ReportTrial call of that
\* loop follows, and a failed NextTrial has no ReportTrial.
C3_ErrorAbortsLoop ==
    /\ [](loop = "failed" =>
            /\ hp \notin {"nextTrial", "reportTrial"}
            /\ subFailed
            /\ trialErr # NilErr)
    /\ [][ /\ (NextTrialStep /\ trialErr' \notin {NilErr, StoppedErr}) =>
                (loop' = "failed" /\ hp' = "runDone" /\ reports' = reports)
           /\ (ReportTrialStep /\ trialErr' # NilErr) =>
                (loop' = "failed" /\ hp' = "runDone")
           /\ loop = "failed" => (SameLoopCalls \/ NewLoop) ]_vars

C3_NextTrialFailedAfterOneTrial ==
    /\ loop = "failed" /\ nextCalls = 2 /\ reports = 1
    /\ trialErr = [kind |-> "api", type |-> "unexpected"]

C5_CancelAfterRuns ==
    cancelled => (runRequested => handled[RunURL] >= 1)

\* The barrier at work: a run was requested, its handler has not finished, and
\* the test function stands at run.Wait() with the subscription not cancelled.
C5_WaitHoldsCancelBack ==
    runRequested /\ handled[RunURL] = 0 /\ run = 1 /\ pc = "Wait" /\ ~cancelled

\* C6: the counter is incremented before the Run activity is requested and
\* never goes below zero.
C6_AddBeforeRequest ==
    /\ runRequested => adds >= 1
    /\ run >= 0

(***************************************************************************)
(* Properties of the subscription                                          *)
(***************************************************************************)

C8_CancelEndsDelivery ==
    (cancelled /\ ~ENABLED Next) =>
        /\ pp \in {"none", "exited"}
        /\ chClosed
        /\ hp \in {"skipped", "exited", "failed"}

\* The panic of run.Done() set aside, under FairSpec: the delivery loop and
\* the range loop do end in every run in which the test binary stays alive.
CancelEndsDeliveryUnlessPanic ==
    /\ (cancelled /\ pp \in {"sleep", "send"}) ~>
           ((pp = "exited" /\ chClosed) \/ crashed)
    /\ cancelled ~> (hp \in {"skipped", "exited", "failed"} \/ crashed)

\* Cancelled while the delivery loop is blocked in a send and Handle Activity
\* is not receiving; later the loop has exited with that item unsent.
CancelledInBlockedSend ==
    pp = "exited" /\ chClosed /\ page # <<>> /\ hp = "skipped"

(***************************************************************************)
(* Progress of runTest                                                     *)
(***************************************************************************)

\* C11: every execution of runTest goes on to its end: run.Wait() returns,
\* cancelSub and "Delete Application" are reached.  As a property of the
\* runs' ends: the test never comes to rest before runTest has returned.
C11_RunTestReachesItsEnd == (~ENABLED Next) => pc = "returned"

\* The same as a property of the fair runs (FairSpec).
RunTestEventuallyReturns == <>(pc = "returned")

\* The counter is only decremented by Handle Activity, which stays parked in
\* t.Parallel() until runTest has returned: a wait on a counter above zero
\* never returns.
WaitOnPositiveCounterIsForever == []((pc = "Wait" /\ run > 0) => [](pc = "Wait"))

\* Before runTest returns, Handle Activity has not received anything.
ParkedUntilReturn ==
    pc # "returned" => (hp \in {"init", "parallel"} /\ pushed = <<>>)

\* The runs that do reach the end are those without a successful
\* "Request Activity".
ReturnedWithoutAdd == pc = "returned" => adds = 0

(***************************************************************************)
(* The delete commands: ForEachNamedExperiment / ForEachNamedApplication   *)
(* with the visitors of NewDeleteExperimentsCommand and                    *)
(* NewDeleteApplicationsCommand.  The Lister's loop is outside the source  *)
(* at hand and follows the specification; the visitors are the commands'.  *)
(***************************************************************************)

Names == {"a", "b", "c"}

\* What the server holds under a name: nothing ("notFound"), an item the
\* lookup fails on for another reason ("error"), an item without a self link
\* ("noSelf"), an item whose delete request fails ("deleteFails"), an item
\* deleted but not printed ("printFails"), or an item deleted and printed.
Holdings == {"notFound", "error", "noSelf", "deleteFails", "printFails", "item"}

NameLists == UNION { [1 .. n -> Names] : n \in 0 .. MaxNames }

\* The visitor of NewDeleteExperimentsCommand: the error it returns.
DeleteExperimentVisitor(r) ==
    IF r = "noSelf" THEN "nil"
    ELSE IF r = "deleteFails" THEN "DeleteFailed"
    ELSE IF r = "printFails" THEN "PrintFailed"
    ELSE "nil"

\* The visitor of NewDeleteApplicationsCommand: the error it returns.
DeleteApplicationVisitor(r) ==
    IF r = "noSelf" THEN "Malformed"
    ELSE IF r = "deleteFails" THEN "DeleteFailed"
    ELSE IF r = "printFails" THEN "PrintFailed"
    ELSE "nil"

Visitor(kind, r) ==
    IF kind = "experiments" THEN DeleteExperimentVisitor(r)
    ELSE DeleteApplicationVisitor(r)

\* The delete request went through.
Deletes(r) == r \in {"printFails", "item"}

\* A lookup that fails with not-found is skipped when ignoreNotFound is set.
SkipsNotFoundAlways(ignoreNotFound, r) == r = "notFound"
SkipsNotFound(ignoreNotFound, r) == ignoreNotFound /\ r = "notFound"

\* One pass of the loop over the names: resolve the name, skip or return on
\* a failed lookup, else call the visitor and return its error if any.
ForEachNamedItem ==
    /\ lErr = "none"
    /\ lIdx <= Len(lNames)
    /\ LET name == lNames[lIdx]
           r == lServer[name]
       IN IF SkipsNotFound(lIgnore, r)
            THEN /\ lIdx' = lIdx + 1
                 /\ UNCHANGED <<lVisited, lDeleted, lErr, lServer>>
          ELSE IF r \in {"notFound", "error"}
            THEN /\ lErr' = IF r = "notFound" THEN "NotFound" ELSE "LookupFailed"
                 /\ UNCHANGED <<lIdx, lVisited, lDeleted, lServer>>
          ELSE /\ lVisited' = Append(lVisited, name)
               /\ lDeleted' = IF Deletes(r) THEN Append(lDeleted, name) ELSE lDeleted
               /\ lServer' = IF Deletes(r) THEN [lServer EXCEPT ![name] = "notFound"]
                             ELSE lServer
               /\ lErr' = IF Visitor(lKind, r) = "nil" THEN "none"
                          ELSE Visitor(lKind, r)
               /\ lIdx' = IF Visitor(lKind, r) = "nil" THEN lIdx + 1 ELSE lIdx
    /\ UNCHANGED <<lKind, lNames, lIgnore, mainVars, subVars, handleVars, nameVars,
                   resourceVars>>

\* Every name has been gone through: the command returns nil.
ForEachNamedReturn ==
    /\ lErr = "none"
    /\ lIdx = Len(lNames) + 1
    /\ lErr' = "nil"
    /\ UNCHANGED <<lKind, lNames, lIgnore, lServer, lIdx, lVisited, lDeleted,
                   mainVars, subVars, handleVars, nameVars, resourceVars>>

InitDelete ==
    /\ lKind \in {"experiments", "applications"}
    /\ lNames \in NameLists
    /\ lIgnore \in BOOLEAN
    /\ lServer \in [Names -> Holdings]
    /\ lIdx = 1 /\ lVisited = <<>> /\ lDeleted = <<>> /\ lErr = "none"
    /\ TestIdle
    /\ NamesIdle
    /\ ResourceIdle

NextDelete == ForEachNamedItem \/ ForEachNamedReturn

SpecDelete == InitDelete /\ [][NextDelete]_vars

RECURSIVE IsSubsequence(_, _)
IsSubsequence(s, t) ==
    IF s = <<>> THEN TRUE
    ELSE IF t = <<>> THEN FALSE
    ELSE IF Head(s) = Head(t) THEN IsSubsequence(Tail(s), Tail(t))
    ELSE IsSubsequence(s, Tail(t))

\* The names the loop has come to so far.
GoneThrough ==
    IF lIdx > Len(lNames) THEN lNames ELSE SubSeq(lNames, 1, lIdx)

LookupStep == lErr = "none" /\ lIdx <= Len(lNames) /\ (lIdx' # lIdx \/ lErr' # lErr)

\* C9: the names are visited in input order; with ignoreNotFound a name that
\* is not found is skipped without a call of the visitor, the next name is
\* gone on to and not-found is never the error returned (nil is returned
\* when nothing else fails); without it the first not-found is returned and
\* no later name is visited.
C9_NamedItems ==
    /\ [](/\ IsSubsequence(lVisited, GoneThrough)
          /\ lIgnore => lErr # "NotFound"
          /\ lErr = "nil" => lIdx = Len(lNames) + 1
          /\ lErr = "NotFound" => lServer[lNames[lIdx]] = "notFound")
    /\ [][ /\ (LookupStep /\ lServer[lNames[lIdx]] = "notFound" /\ lIgnore) =>
                /\ lVisited' = lVisited /\ lDeleted' = lDeleted
                /\ lErr' = "none" /\ lIdx' = lIdx + 1
           /\ (LookupStep /\ lServer[lNames[lIdx]] = "notFound" /\ ~lIgnore) =>
                /\ lVisited' = lVisited /\ lDeleted' = lDeleted
                /\ lErr' = "NotFound"
           /\ (LookupStep /\ lServer[lNames[lIdx]] \notin {"notFound", "error"}) =>
                lVisited' = Append(lVisited, lNames[lIdx])
           /\ (LookupStep /\ lServer[lNames[lIdx]] = "item") =>
                (lErr' = "none" /\ lIdx' = lIdx + 1)
           /\ lErr # "none" => (lVisited' = lVisited /\ lDeleted' = lDeleted
                                /\ lIdx' = lIdx /\ lErr' = lErr) ]_vars

\* The scenario of the specification: the middle name of three is missing.
C9_MissingSkipped ==
    /\ lIgnore /\ lNames = <<"a", "b", "c">> /\ lServer["b"] = "notFound"
    /\ lVisited = <<"a", "c">> /\ lErr = "nil"

(***************************************************************************)
(* newExperimentName                                                       *)
(***************************************************************************)

\* A millisecond timestamp is held as <<high, low>>, two halves of 24 bits.
\* binary.BigEndian.PutUint64(name[:], uint64(ms) << 16): the shift drops
\* what lies above bit 47; the low 48 bits fill name[0..5], name[6..7] are 0.
PutUint64LittleEndian(t) ==
    << 0, 0,
       t[2] % 256, (t[2] \div 256) % 256, (t[2] \div 65536) % 256,
       t[1] % 256, (t[1] \div 256) % 256, (t[1] \div 65536) % 256 >>

PutUint64(t) ==
    << (t[1] \div 65536) % 256, (t[1] \div 256) % 256, t[1] % 256,
       (t[2] \div 65536) % 256, (t[2] \div 256) % 256, t[2] % 256,
       0, 0 >>

\* rand.Read(name[6:]) overwrites name[6..15].
NameBytes(t, r) == SubSeq(PutUint64(t), 1, 6) \o r

\* base32: five bytes give eight 5-bit values.
EncodeQuantum(s) ==
    << s[1] \div 8,
       ((s[1] * 4) % 32) + (s[2] \div 64),
       (s[2] \div 2) % 32,
       ((s[2] * 16) % 32) + (s[3] \div 16),
       ((s[3] * 2) % 32) + (s[4] \div 128),
       (s[4] \div 4) % 32,
       ((s[4] * 8) % 32) + (s[5] \div 32),
       s[5] % 32 >>

\* base32 without padding: a last single byte gives two 5-bit values.
RECURSIVE Encode5(_)
Encode5(s) ==
    IF s = <<>> THEN <<>>
    ELSE IF Len(s) >= 5
      THEN EncodeQuantum(SubSeq(s, 1, 5)) \o Encode5(SubSeq(s, 6, Len(s)))
    ELSE << s[1] \div 8, (s[1] * 4) % 32 >>

\* The character codes of "0123456789ABCDEFGHJKMNPQRSTVWXYZ".
NotCrockford ==
    << 48, 49, 50, 51, 52, 53, 54, 55, 56, 57,
       65, 66, 67, 68, 69, 70, 71, 72, 74, 75, 77, 78,
       80, 81, 82, 83, 84, 86, 87, 88, 89, 90 >>

EncodeToString(s) ==
    LET digits == Encode5(s)
    IN [k \in 1 .. Len(digits) |-> NotCrockford[digits[k] + 1]]

NewExperimentName(t, r) == EncodeToString(NameBytes(t, r))

\* The timestamps and random bytes tried, around the byte and 5-bit
\* boundaries.  UnixNano()/1e6 of an int64 stays below 2^63/10^6, so the high
\* half stays below 549756.
TimeHighs == {0, 1, 256, 549755}
TimeLows == {0, 7, 8, 255, 256, 16777215}
Times == TimeHighs \X TimeLows
RandomReads ==
    { <<b>> \o [k \in 1 .. 9 |-> c] : b \in {0, 64, 255}, c \in {0, 255} }

\* One call of newExperimentName.
NewExperimentNameCall ==
    /\ nPc \in {1, 2}
    /\ nNames' = Append(nNames, NewExperimentName(nTime[nPc], nRand[nPc]))
    /\ nPc' = nPc + 1
    /\ UNCHANGED <<nTime, nRand, mainVars, subVars, handleVars, listerVars,
                   resourceVars>>

InitNames ==
    /\ nPc = 1
    /\ nTime \in Times \X Times
    /\ nRand \in RandomReads \X RandomReads
    /\ nNames = <<>>
    /\ TestIdle
    /\ ListerIdle
    /\ ResourceIdle

NextNames == NewExperimentNameCall

SpecNames == InitNames /\ [][NextNames]_vars

Below2to48(t) == t[1] < 16777216 /\ t[2] < 16777216
TimeBefore(t, u) == t[1] < u[1] \/ (t[1] = u[1] /\ t[2] < u[2])

\* The order of Go strings: byte by byte.
RECURSIVE StringLess(_, _)
StringLess(s, t) ==
    IF t = <<>> THEN FALSE
    ELSE IF s = <<>> THEN TRUE
    ELSE IF Head(s) # Head(t) THEN Head(s) < Head(t)
    ELSE StringLess(Tail(s), Tail(t))

\* C10: a name has 26 characters of 0123456789ABCDEFGHJKMNPQRSTVWXYZ, and
\* of two names made at millisecond timestamps t1 < t2 below 2^48 the first
\* sorts strictly before the second, whatever the random bytes.
C10_NamesSortByTime ==
    /\ \A k \in 1 .. Len(nNames) :
         /\ Len(nNames[k]) = 26
         /\ \A j \in 1 .. 26 :
              nNames[k][j] \in (48 .. 57) \cup ((65 .. 90) \ {73, 76, 79, 85})
    /\ (Len(nNames) = 2 /\ Below2to48(nTime[1]) /\ Below2to48(nTime[2])
          /\ TimeBefore(nTime[1], nTime[2]))
         => StringLess(nNames[1], nNames[2])

\* One millisecond apart across a 5-bit boundary, the earlier name with the
\* larger random bytes.
C10_AdjacentMilliseconds ==
    /\ Len(nNames) = 2
    /\ nTime = << <<0, 7>>, <<0, 8>> >>
    /\ nRand[1][1] = 255 /\ nRand[2][1] = 0

(***************************************************************************)
(* normalizeResource                                                       *)
(***************************************************************************)

\* The longest list of namespaces given.
MaxNamespaces == 2

\* Namespace strings; "" is Go's empty string.
NamespaceNames == {"", "a", "b"}

NamespaceLists ==
    UNION { [1 .. n -> NamespaceNames] : n \in 0 .. MaxNamespaces }

Resources ==
    [Namespace : NamespaceNames, Namespaces : NamespaceLists,
     NamespaceSelector : {"", "s"}, Selector : {"", "l"}]

\* normalizeResource(r): the resource and the bool it returns.  A nil slice
\* and an empty slice are both <<>>.
normalizeResource(r) ==
    IF r.Namespace = "" /\ Len(r.Namespaces) = 0 /\ r.NamespaceSelector = ""
    THEN [r |-> r, ok |-> FALSE]
    ELSE LET r1 == IF r.Namespace = "" /\ Len(r.Namespaces) = 1
                   THEN [r EXCEPT !.Namespace = r.Namespaces[1],
                                  !.Namespaces = <<>>]
                   ELSE r
             r2 == IF r1.Namespace # "" /\ Len(r1.Namespaces) > 0
                   THEN [r1 EXCEPT !.Namespaces = Append(@, r1.Namespace),
                                   !.Namespace = ""]
                   ELSE r1
         IN  [r |-> r2, ok |-> TRUE]

\* A command calls normalizeResource(resource).
NormalizeResourceCall ==
    /\ rPc = 1
    /\ rOut' = normalizeResource(rIn).r
    /\ rOk' = normalizeResource(rIn).ok
    /\ rPc' = 2
    /\ UNCHANGED <<rIn, mainVars, subVars, handleVars, listerVars, nameVars>>

InitResource ==
    /\ rPc = 1
    /\ rIn \in Resources
    /\ rOut = NoResource /\ rOk = FALSE
    /\ TestIdle
    /\ ListerIdle
    /\ NamesIdle

NextResource == NormalizeResourceCall

SpecResource == InitResource /\ [][NextResource]_vars

\* The namespace entries a resource holds: Namespace unless it is the empty
\* string, and every element of Namespaces.
EntryCount(r, n) ==
    (IF r.Namespace = n /\ n # "" THEN 1 ELSE 0)
      + Cardinality({ k \in 1 .. Len(r.Namespaces) : r.Namespaces[k] = n })

Entries(r) == (IF r.Namespace # "" THEN 1 ELSE 0) + Len(r.Namespaces)

SameEntries(r, q) == \A n \in NamespaceNames : EntryCount(r, n) = EntryCount(q, n)

NothingGiven(r) ==
    r.Namespace = "" /\ r.Namespaces = <<>> /\ r.NamespaceSelector = ""

Normalized(in, out, b) ==
    /\ b = ~NothingGiven(in)
    /\ NothingGiven(in) => out = in
    /\ ~NothingGiven(in) =>
         /\ SameEntries(in, out)
         /\ out.NamespaceSelector = in.NamespaceSelector
         /\ out.Selector = in.Selector
         /\ Entries(in) = 1 => (out.Namespace # "" /\ out.Namespaces = <<>>)
         /\ Entries(in) >= 2 => (out.Namespace = "" /\ Len(out.Namespaces) >= 2)
         /\ ~(out.Namespace # "" /\ out.Namespaces # <<>>)
         /\ normalizeResource(out).r = out

\* C12: normalizeResource returns false and the resource as it is exactly when
\* Namespace, Namespaces and NamespaceSelector are all empty; otherwise it
\* returns true and a resource with the same namespace entries, in Namespace
\* alone for one entry and in Namespaces alone for two or more, never in both,
\* and normalizing the result again changes nothing.
C12_NormalizeResource == rPc = 2 => Normalized(rIn, rOut, rOk)

\* The same for the inputs whose single entry of Namespaces, if Namespace
\* is empty, is not the empty string.
NormalizeResourceNamedEntry ==
    (rPc = 2 /\ ~(rIn.Namespace = "" /\ rIn.Namespaces = <<"">>))
        => Normalized(rIn, rOut, rOk)

\* --namespace "" and nothing else: true is returned with a resource in which
\* nothing is given.
EmptyNamespaceGiven ==
    /\ rPc = 2
    /\ rIn = [NoResource EXCEPT !.Namespaces = <<"">>]
    /\ rOk /\ NothingGiven(rOut)

====
